---- MODULE Spec2Model ----
(***************************************************************************)
(* A model of the HTML renderer of src/html/renderer.go.                   *)
(*                                                                         *)
(* Byte strings the code inspects (link destinations, slugs, heading ids)  *)
(* are sequences of one-character strings.  Rendered output is a sequence  *)
(* of pieces; a piece is a complete HTML tag, a markup fragment that is    *)
(* not a complete tag (such as `<img src="`), or escaped text.             *)
(***************************************************************************)
EXTENDS Integers, Sequences, FiniteSets, TLC

VARIABLES
    \* pure-function harness
    arg, fnpc, boolRes, slug1, slug2,
    \* Renderer.headingIDs and the record of ensureUniqueHeadingID calls
    headingIDs, idCalls,
    \* writeTOC locals
    doc, tocPos, tocPhase, inHeading, tocLevel, headingCount, buf,
    \* the body render that follows RenderHeader: its position and its output
    bodyPos, bodyPhase, body,
    \* Renderer fields and the position of the tree walk
    opts, scope, stack, visited, last, lastOutputLen, disableTags, status

fnVars   == <<arg, fnpc, boolRes, slug1, slug2>>
idVars   == <<headingIDs, idCalls>>
bodyVars == <<bodyPos, bodyPhase, body>>
tocVars  == <<doc, tocPos, tocPhase, inHeading, tocLevel, headingCount, buf, bodyVars>>
walkVars == <<opts, scope, stack, visited, last, lastOutputLen, disableTags, status>>
vars     == <<fnVars, idVars, tocVars, walkVars>>

----------------------------------------------------------------------------
\* Bounds of the model.

\* longest generated input of the pure functions
MaxLen == 3
\* number of ensureUniqueHeadingID calls in one session
MaxCalls == 4
\* number of headings of a document given to writeTOC
MaxHeadings == 5
\* deepest heading level of such a document
MaxLevel == 3
\* deepest nesting of open container nodes in the tree walk
MaxDepth == 5
\* number of nodes of a walked tree
MaxNodes == 6

----------------------------------------------------------------------------
\* Characters.

Digits == {"0", "1", "2", "3", "4", "5", "6", "7", "8", "9"}

LowerLetters ==
    {"a", "b", "c", "d", "e", "f", "g", "h", "i", "j", "k", "l", "m",
     "n", "o", "p", "q", "r", "s", "t", "u", "v", "w", "x", "y", "z"}

UpperLetters ==
    {"A", "B", "C", "D", "E", "F", "G", "H", "I", "J", "K", "L", "M",
     "N", "O", "P", "Q", "R", "S", "T", "U", "V", "W", "X", "Y", "Z"}

\* isLetter: c is an ASCII letter
isLetter(c) == c \in LowerLetters \/ c \in UpperLetters

\* isAlnum: c is a digit or an ASCII letter
isAlnum(c) == c \in Digits \/ isLetter(c)

LowerOf ==
    [c \in UpperLetters |->
        CASE c = "A" -> "a" [] c = "B" -> "b" [] c = "C" -> "c" [] c = "D" -> "d"
          [] c = "E" -> "e" [] c = "F" -> "f" [] c = "G" -> "g" [] c = "H" -> "h"
          [] c = "I" -> "i" [] c = "J" -> "j" [] c = "K" -> "k" [] c = "L" -> "l"
          [] c = "M" -> "m" [] c = "N" -> "n" [] c = "O" -> "o" [] c = "P" -> "p"
          [] c = "Q" -> "q" [] c = "R" -> "r" [] c = "S" -> "s" [] c = "T" -> "t"
          [] c = "U" -> "u" [] c = "V" -> "v" [] c = "W" -> "w" [] c = "X" -> "x"
          [] c = "Y" -> "y" [] c = "Z" -> "z"]

\* bytes.ToLower on ASCII input
ToLower(s) == [i \in 1..Len(s) |-> IF s[i] \in UpperLetters THEN LowerOf[s[i]] ELSE s[i]]

\* bytes.HasPrefix
HasPrefix(s, p) == Len(s) >= Len(p) /\ SubSeq(s, 1, Len(p)) = p

----------------------------------------------------------------------------
\* Safety and slug utilities.

validUris ==
    << <<"h", "t", "t", "p", ":", "/", "/">>,
       <<"h", "t", "t", "p", "s", ":", "/", "/">>,
       <<"f", "t", "p", ":", "/", "/">>,
       <<"m", "a", "i", "l", "t", "o", ":", "/", "/">> >>

validPaths == << <<"/">>, <<".", "/">>, <<".", ".", "/">> >>

\* isSafeLink with the scheme test off by one: wants two bytes after the scheme
isSafeLinkShort(link) ==
    \/ \E k \in 1..Len(validPaths) :
          LET path == validPaths[k] IN
          /\ Len(link) >= Len(path)
          /\ SubSeq(link, 1, Len(path)) = path
          /\ (Len(link) = Len(path) \/ isAlnum(link[Len(path) + 1]))
    \/ \E k \in 1..Len(validUris) :
          LET prefix == validUris[k] IN
          /\ Len(link) > Len(prefix) + 1
          /\ ToLower(SubSeq(link, 1, Len(prefix))) = prefix
          /\ isAlnum(link[Len(prefix) + 1])

isSafeLink(link) ==
    \/ \E k \in 1..Len(validPaths) :
          LET path == validPaths[k] IN
          /\ Len(link) >= Len(path)
          /\ SubSeq(link, 1, Len(path)) = path
          /\ (Len(link) = Len(path) \/ isAlnum(link[Len(path) + 1]))
    \/ \E k \in 1..Len(validUris) :
          LET prefix == validUris[k] IN
          /\ Len(link) > Len(prefix)
          /\ ToLower(SubSeq(link, 1, Len(prefix))) = prefix
          /\ isAlnum(link[Len(prefix) + 1])

\* isMailto
isMailto(link) == HasPrefix(link, <<"m", "a", "i", "l", "t", "o", ":">>)

\* isRelativeLink reads link[0] first: on an empty link the index is out of
\* range and the call panics.
isRelativeLinkPanics(link) == Len(link) = 0

\* isRelativeLink, for a link on which it does not panic
isRelativeLink(link) ==
    \/ link[1] = "#"
    \/ (Len(link) >= 2 /\ link[1] = "/" /\ link[2] # "/")
    \/ (Len(link) = 1 /\ link[1] = "/")
    \/ HasPrefix(link, <<".", "/">>)
    \/ HasPrefix(link, <<".", ".", "/">>)

\* the first loop of slugify: alphanumerics are kept, every run of other
\* bytes becomes one '-'
RECURSIVE slugifyScan(_, _, _, _)
slugifyScan(in, i, out, sym) ==
    IF i > Len(in) THEN out
    ELSE IF isAlnum(in[i]) THEN slugifyScan(in, i + 1, Append(out, in[i]), FALSE)
    ELSE IF sym THEN slugifyScan(in, i + 1, out, TRUE)
    ELSE slugifyScan(in, i + 1, Append(out, "-"), TRUE)

\* `for a, ch = range out { if ch != '-' { break } }`: the 0-based index of the
\* first byte that is not '-', or the last index when every byte is '-'
slugifyA(out) ==
    IF \E i \in 1..Len(out) : out[i] # "-"
    THEN (CHOOSE i \in 1..Len(out) :
              out[i] # "-" /\ \A j \in 1..(i - 1) : out[j] = "-") - 1
    ELSE Len(out) - 1

\* `for b = len(out) - 1; b > 0; b-- { if out[b] != '-' { break } }`: the
\* 0-based index of the last byte that is not '-' among out[1:], or 0
slugifyB(out) ==
    IF \E i \in 2..Len(out) : out[i] # "-"
    THEN (CHOOSE i \in 2..Len(out) :
              out[i] # "-" /\ \A j \in (i + 1)..Len(out) : out[j] = "-") - 1
    ELSE 0

slugify(in) ==
    IF Len(in) = 0 THEN in
    ELSE LET out == slugifyScan(in, 1, <<>>, FALSE)
         IN  SubSeq(out, slugifyA(out) + 1, slugifyB(out) + 1)

----------------------------------------------------------------------------
\* The pure functions applied to generated inputs.

FnAlphabet == {"a", "Z", "1", "-", "!", "/", ".", "#"}

RECURSIVE StringsUpTo(_, _)
StringsUpTo(alphabet, n) ==
    IF n = 0 THEN {<<>>}
    ELSE LET shorter == StringsUpTo(alphabet, n - 1)
         IN  shorter \cup {Append(s, c) : s \in shorter, c \in alphabet}

LinkPath == <<"/", "p", "a", "t", "h">>
LinkJavascript ==
    <<"j", "a", "v", "a", "s", "c", "r", "i", "p", "t", ":",
      "a", "l", "e", "r", "t", "(", "1", ")">>
LinkHttpA == <<"h", "t", "t", "p", ":", "/", "/", "a">>
LinkHttpA1 == <<"h", "t", "t", "p", ":", "/", "/", "a", "1">>
LinkHttpBare == <<"h", "t", "t", "p", ":", "/", "/">>
LinkHttpUpper == <<"H", "T", "T", "P", ":", "/", "/", "a">>
LinkMailto == <<"m", "a", "i", "l", "t", "o", ":", "x">>

NamedLinks ==
    {LinkPath, LinkJavascript, LinkHttpA, LinkHttpA1, LinkHttpBare,
     LinkHttpUpper, LinkMailto}

FnInputs == StringsUpTo(FnAlphabet, MaxLen) \cup NamedLinks

FnIdle ==
    /\ arg = <<>>
    /\ fnpc = "idle"
    /\ boolRes = FALSE
    /\ slug1 = <<>>
    /\ slug2 = <<>>

FnInit ==
    /\ arg \in FnInputs
    /\ fnpc = "input"
    /\ boolRes = FALSE
    /\ slug1 = <<>>
    /\ slug2 = <<>>

CallIsSafeLink ==
    /\ fnpc = "input"
    /\ boolRes' = isSafeLink(arg)
    /\ fnpc' = "isSafeLink"
    /\ UNCHANGED <<arg, slug1, slug2, idVars, tocVars, walkVars>>

CallIsRelativeLink ==
    /\ fnpc = "input"
    /\ IF isRelativeLinkPanics(arg)
       THEN fnpc' = "panic" /\ boolRes' = boolRes
       ELSE fnpc' = "isRelativeLink" /\ boolRes' = isRelativeLink(arg)
    /\ UNCHANGED <<arg, slug1, slug2, idVars, tocVars, walkVars>>

CallSlugify ==
    /\ fnpc = "input"
    /\ slug1' = slugify(arg)
    /\ fnpc' = "slugify"
    /\ UNCHANGED <<arg, boolRes, slug2, idVars, tocVars, walkVars>>

CallSlugifyAgain ==
    /\ fnpc = "slugify"
    /\ slug2' = slugify(slug1)
    /\ fnpc' = "slugifyTwice"
    /\ UNCHANGED <<arg, boolRes, slug1, idVars, tocVars, walkVars>>

----------------------------------------------------------------------------
\* Output pieces.

\* a complete HTML tag: what htmlTag matches
Tag(name, attrs) == [kind |-> "tag", name |-> name, attrs |-> attrs]
\* markup that is not a complete tag, and newlines
Frag(name) == [kind |-> "frag", name |-> name, attrs |-> <<>>]
\* HTML-escaped text: EscapeHTML and escLink leave no '<' in it
Text(name) == [kind |-> "text", name |-> name, attrs |-> <<>>]
Attr(k, v) == [k |-> k, v |-> v]
NL == Frag("\n")

IsTag(p) == p.kind = "tag"
HasTag(d) == \E i \in 1..Len(d) : IsTag(d[i])

\* strconv.Itoa and %d, for n >= 0
DigitOf ==
    [d \in 0..9 |->
        CASE d = 0 -> "0" [] d = 1 -> "1" [] d = 2 -> "2" [] d = 3 -> "3"
          [] d = 4 -> "4" [] d = 5 -> "5" [] d = 6 -> "6" [] d = 7 -> "7"
          [] d = 8 -> "8" [] d = 9 -> "9"]

RECURSIVE Itoa(_)
Itoa(n) == IF n < 10 THEN <<DigitOf[n]>> ELSE Append(Itoa(n \div 10), DigitOf[n % 10])

----------------------------------------------------------------------------
\* Heading-ID registry.  reg is Renderer.headingIDs, a function from ids to
\* counts; the result carries the returned id, the registry after the call and
\* the branch taken by each iteration of the loop.

RECURSIVE ensureLoop(_, _, _)
ensureLoop(reg, id, branches) ==
    IF id \in DOMAIN reg
    THEN LET count == reg[id]
             tmp == id \o <<"-">> \o Itoa(count + 1)
         IN  IF tmp \notin DOMAIN reg
             THEN ensureLoop([reg EXCEPT ![id] = count + 1], tmp, Append(branches, "probe"))
             ELSE ensureLoop(reg, id \o <<"-", "1">>, Append(branches, "fallback"))
    ELSE [reg |-> reg, id |-> id, branches |-> branches]

\* ensureUniqueHeadingID that leaves the id it returns out of the registry
ensureUniqueHeadingIDForgets(reg, id) ==
    LET r == ensureLoop(reg, id, <<>>)
    IN  [id |-> r.id, reg |-> r.reg, branches |-> r.branches]

\* ensureUniqueHeadingID with an `if` for the `for`: one probe, then the "-1"
\* fallback is returned as it is
ensureUniqueHeadingIDOnce(reg, id) ==
    IF id \in DOMAIN reg
    THEN LET count == reg[id]
             tmp == id \o <<"-">> \o Itoa(count + 1)
             hit == tmp \notin DOMAIN reg
             ret == IF hit THEN tmp ELSE id \o <<"-", "1">>
             reg1 == IF hit THEN [reg EXCEPT ![id] = count + 1] ELSE reg
         IN  [id |-> ret,
              reg |-> IF ret \in DOMAIN reg1 THEN reg1 ELSE reg1 @@ (ret :> 0),
              branches |-> <<IF hit THEN "probe" ELSE "fallback">>]
    ELSE [id |-> id, reg |-> reg @@ (id :> 0), branches |-> <<>>]

ensureUniqueHeadingID(reg, id) ==
    LET r == ensureLoop(reg, id, <<>>)
    IN  [id |-> r.id,
         reg |-> IF r.id \in DOMAIN r.reg THEN r.reg ELSE r.reg @@ (r.id :> 0),
         branches |-> r.branches]

\* make(map[string]int)
EmptyRegistry == [x \in {} |-> 0]

IdA == <<"a">>
IdA1 == <<"a", "-", "1">>
IdA2 == <<"a", "-", "2">>
IdA11 == <<"a", "-", "1", "-", "1">>
IdB == <<"b">>
IdCandidates == {IdA, IdA1, IdA2, IdA11, IdB}

IdIdle ==
    /\ headingIDs = EmptyRegistry
    /\ idCalls = <<>>

\* one call of ensureUniqueHeadingID on a candidate id
EnsureUnique ==
    /\ Len(idCalls) < MaxCalls
    /\ \E cand \in IdCandidates :
          LET r == ensureUniqueHeadingID(headingIDs, cand)
          IN  /\ headingIDs' = r.reg
              /\ idCalls' = Append(idCalls,
                     [cand |-> cand, ret |-> r.id, branches |-> r.branches,
                      before |-> headingIDs, after |-> r.reg])
    /\ UNCHANGED <<fnVars, tocVars, walkVars>>

----------------------------------------------------------------------------
\* Table-of-contents builder.  doc is the sequence of the document's heading
\* nodes, each with one Text child; every heading is visited entering, then
\* its child, then exiting, as the walk of writeTOC does.

TocID(n) == <<"t", "o", "c", "_">> \o Itoa(n)

HeadingNode(level, titleblock) ==
    [Level |-> level, IsTitleblock |-> titleblock, HeadingID |-> <<"h">>]

RECURSIVE SeqsUpTo(_, _)
SeqsUpTo(S, n) ==
    IF n = 0 THEN {<<>>}
    ELSE LET shorter == SeqsUpTo(S, n - 1)
         IN  shorter \cup {Append(s, x) : s \in shorter, x \in S}

\* a title block, when there is one, is the first heading of the document
TocDocs ==
    LET plain == SeqsUpTo({HeadingNode(l, FALSE) : l \in 1..MaxLevel}, MaxHeadings)
    IN  plain \cup {<<HeadingNode(1, TRUE)>> \o d : d \in plain}

TocIdle ==
    /\ doc = <<>>
    /\ tocPos = 0
    /\ tocPhase = "idle"
    /\ inHeading = FALSE
    /\ tocLevel = 0
    /\ headingCount = 0
    /\ buf = <<>>
    /\ bodyPos = 0
    /\ bodyPhase = "idle"
    /\ body = <<>>

TocInit ==
    /\ doc \in TocDocs
    /\ tocPos = 1
    /\ tocPhase = "enter"
    /\ inHeading = FALSE
    /\ tocLevel = 0
    /\ headingCount = 0
    /\ buf = <<>>
    /\ bodyPos = 0
    /\ bodyPhase = "idle"
    /\ body = <<>>

\* `for level < tocLevel { tocLevel--; "</li>\n</ul>" }`
RECURSIVE TocClose(_)
TocClose(n) == IF n <= 0 THEN <<>> ELSE <<Tag("</li>", <<>>), NL, Tag("</ul>", <<>>)>> \o TocClose(n - 1)

\* `for level > tocLevel { tocLevel++; "\n<ul>\n<li>" }`
RECURSIVE TocOpen(_)
TocOpen(n) == IF n <= 0 THEN <<>> ELSE <<NL, Tag("<ul>", <<>>), NL, Tag("<li>", <<>>)>> \o TocOpen(n - 1)

TocSibling == <<Tag("</li>", <<>>), NL, NL, Tag("<li>", <<>>)>>

\* a variant that opens a single list for a deeper heading, whatever the
\* difference of levels
TocListMarkupOpensOne(level, cur) ==
    IF level = cur THEN TocSibling
    ELSE IF level < cur THEN TocClose(cur - level) \o TocSibling
    ELSE TocOpen(1)

\* a variant that, for a shallower heading, closes through the heading's own
\* level and opens a fresh list
TocListMarkupClosesThrough(level, cur) ==
    IF level = cur THEN TocSibling
    ELSE IF level < cur THEN TocClose(cur - level + 1) \o TocOpen(1)
    ELSE TocOpen(level - cur)

\* the list markup written on entering a heading of the given level
TocListMarkup(level, cur) ==
    IF level = cur THEN TocSibling
    ELSE IF level < cur THEN TocClose(cur - level) \o TocSibling
    ELSE TocOpen(level - cur)

\* the callback on a heading that is not a title block, entering
TocEnterHeading ==
    /\ tocPhase = "enter"
    /\ tocPos <= Len(doc)
    /\ ~doc[tocPos].IsTitleblock
    /\ inHeading' = TRUE
    /\ doc' = [doc EXCEPT ![tocPos].HeadingID = TocID(headingCount)]
    /\ buf' = buf \o TocListMarkup(doc[tocPos].Level, tocLevel)
                  \o <<Tag("<a", <<Attr("href", <<"#">> \o TocID(headingCount))>>)>>
    /\ tocLevel' = doc[tocPos].Level
    /\ headingCount' = headingCount + 1
    /\ tocPhase' = "child"
    /\ UNCHANGED <<tocPos, bodyVars,
                 fnVars, idVars, walkVars>>

\* the callback on a title-block heading, entering or exiting: the heading
\* test fails, and RenderNode runs only if inHeading is set, which it never is
\* between two headings
TocTitleblock ==
    /\ tocPhase \in {"enter", "exit"}
    /\ tocPos <= Len(doc)
    /\ doc[tocPos].IsTitleblock
    /\ ~inHeading
    /\ tocPhase' = IF tocPhase = "enter" THEN "child" ELSE "enter"
    /\ tocPos' = IF tocPhase = "enter" THEN tocPos ELSE tocPos + 1
    /\ UNCHANGED <<doc, inHeading, tocLevel, headingCount, buf, bodyVars,
                 fnVars, idVars, walkVars>>

\* the callback on the Text child of a heading: rendered into buf by
\* RenderNode when inHeading is set
TocChild ==
    /\ tocPhase = "child"
    /\ buf' = IF inHeading THEN Append(buf, Text("text")) ELSE buf
    /\ tocPhase' = "exit"
    /\ UNCHANGED <<doc, tocPos, inHeading, tocLevel, headingCount, bodyVars,
                 fnVars, idVars, walkVars>>

\* the callback on a heading that is not a title block, exiting
TocExitHeading ==
    /\ tocPhase = "exit"
    /\ tocPos <= Len(doc)
    /\ ~doc[tocPos].IsTitleblock
    /\ inHeading' = FALSE
    /\ buf' = Append(buf, Tag("</a>", <<>>))
    /\ tocPos' = tocPos + 1
    /\ tocPhase' = "enter"
    /\ UNCHANGED <<doc, tocLevel, headingCount, bodyVars,
                 fnVars, idVars, walkVars>>

\* after the walk: `for ; tocLevel > 0; tocLevel-- { "</li>\n</ul>" }`, and
\* `r.lastOutputLen = buf.Len()`
TocFinish ==
    /\ tocPhase = "enter"
    /\ tocPos > Len(doc)
    /\ buf' = buf \o TocClose(tocLevel)
    /\ tocLevel' = 0
    /\ tocPhase' = "done"
    /\ lastOutputLen' = Len(buf')
    /\ UNCHANGED <<doc, tocPos, inHeading, headingCount, bodyVars, fnVars, idVars,
                 opts, scope, stack, visited, last, disableTags, status>>

----------------------------------------------------------------------------
\* Renderer options.  Each flag of Flags is a boolean field; RenderNodeHook is
\* whether a hook is installed.

Flag(o, f) == o[f]

\* the state one RenderNode call threads through its writes: the pieces that
\* reached w, the writes that went through out/outs, and the two counters
Writer(len, dis) == [w |-> <<>>, sink |-> <<>>, lastOutputLen |-> len, disableTags |-> dis]

\* htmlTagRe.ReplaceAll(d, ""): the expression starts with `^`, so only a tag
\* at the very start of d matches, once
htmlTagRe(d) == IF Len(d) > 0 /\ IsTag(d[1]) THEN Tail(d) ELSE d

\* Renderer.out
out(st, d) ==
    LET written == IF st.disableTags > 0 THEN htmlTagRe(d) ELSE d
    IN  [st EXCEPT !.lastOutputLen = Len(d),
                   !.w = @ \o written,
                   !.sink = Append(@, [d |-> d, written |-> written,
                                       disabled |-> st.disableTags > 0])]

\* Renderer.outs
outs(st, s) ==
    LET written == IF st.disableTags > 0 THEN htmlTagRe(s) ELSE s
    IN  [st EXCEPT !.lastOutputLen = Len(s),
                   !.w = @ \o written,
                   !.sink = Append(@, [d |-> s, written |-> written,
                                       disabled |-> st.disableTags > 0])]

\* Renderer.cr
cr(st) == IF st.lastOutputLen > 0 THEN outs(st, <<NL>>) ELSE st

\* Renderer.outTag: written with io.WriteString, past out/outs
outTag(st, name, attrs) ==
    [st EXCEPT !.w = Append(@, Tag(name, attrs)), !.lastOutputLen = 1]

\* EscapeHTML(w, ...) and escLink(w, ...): written to w, past out/outs
escapeTo(st, d) == [st EXCEPT !.w = @ \o d]

\* Renderer.outOneOf
outOneOf(st, outFirst, first, second) ==
    IF outFirst THEN outs(st, <<Tag(first, <<>>)>>) ELSE outs(st, <<Tag(second, <<>>)>>)

\* Renderer.outOneOfCr
outOneOfCr(st, outFirst, first, second) ==
    IF outFirst THEN outs(cr(st), <<Tag(first, <<>>)>>) ELSE cr(outs(st, <<Tag(second, <<>>)>>))

\* Renderer.outHRTag
outHRTag(st, o) == outOneOf(st, ~Flag(o, "UseXHTML"), "<hr>", "<hr />")

----------------------------------------------------------------------------
\* Links and images.  A renderer returns [st, status]; status "panic" is a Go
\* run-time panic, which ends the render.

Ok(st) == [st |-> st, status |-> "GoToNext"]
Panic(st) == [st |-> st, status |-> "panic"]

\* needSkipLink that lets a footnote reference through
needSkipLinkButNotes(o, link) ==
    /\ link.NoteID = 0
    /\ \/ Flag(o, "SkipLinks")
       \/ (Flag(o, "Safelink") /\ ~isSafeLink(link.Destination) /\ ~isMailto(link.Destination))

\* needSkipLink(r.opts.Flags, nodeData.Destination)
needSkipLink(o, link) ==
    \/ Flag(o, "SkipLinks")
    \/ (Flag(o, "Safelink") /\ ~isSafeLink(link.Destination) /\ ~isMailto(link.Destination))

\* addAbsPrefix evaluates isRelativeLink(link) when AbsolutePrefix is not empty
addAbsPrefixPanics(o, link) == o.AbsolutePrefix # <<>> /\ isRelativeLinkPanics(link)

\* Renderer.addAbsPrefix, when it does not panic
addAbsPrefix(o, link) ==
    IF o.AbsolutePrefix # <<>> /\ isRelativeLink(link) /\ link[1] # "."
    THEN o.AbsolutePrefix \o (IF link[1] # "/" THEN <<"/">> ELSE <<>>) \o link
    ELSE link

\* appendLinkAttrs, for a link on which isRelativeLink does not panic
appendLinkAttrs(attrs, o, link) ==
    IF isRelativeLink(link) THEN attrs
    ELSE LET val == (IF Flag(o, "NofollowLinks") THEN <<"nofollow">> ELSE <<>>)
                    \o (IF Flag(o, "NoreferrerLinks") THEN <<"noreferrer">> ELSE <<>>)
             attrs1 == IF Flag(o, "HrefTargetBlank")
                       THEN Append(attrs, Attr("target", <<"_blank">>)) ELSE attrs
         IN  IF Len(val) = 0 THEN attrs1 ELSE Append(attrs1, Attr("rel", val))

\* a variant that builds the fragment from the raw destination
footnoteRefRawDestination(prefix, link) ==
    LET urlFrag == prefix \o link.Destination
    IN  << Tag("<sup", <<Attr("class", <<"footnote-ref">>),
                         Attr("id", <<"fnref:">> \o urlFrag)>>),
           Tag("<a", <<Attr("rel", <<"footnote">>),
                       Attr("href", <<"#fn:">> \o urlFrag)>>),
           [kind |-> "text", name |-> "NoteID", attrs |-> <<Attr("n", Itoa(link.NoteID))>>],
           Tag("</a>", <<>>),
           Tag("</sup>", <<>>) >>

\* footnoteRef: <sup class="footnote-ref" id="fnref:F"><a rel="footnote"
\* href="#fn:F">N</a></sup> with F the prefix and the slug of the destination
footnoteRef(prefix, link) ==
    LET urlFrag == prefix \o slugify(link.Destination)
    IN  << Tag("<sup", <<Attr("class", <<"footnote-ref">>),
                         Attr("id", <<"fnref:">> \o urlFrag)>>),
           Tag("<a", <<Attr("rel", <<"footnote">>),
                       Attr("href", <<"#fn:">> \o urlFrag)>>),
           [kind |-> "text", name |-> "NoteID", attrs |-> <<Attr("n", Itoa(link.NoteID))>>],
           Tag("</a>", <<>>),
           Tag("</sup>", <<>>) >>

\* footnoteItem
footnoteItem(prefix, slug) == <<Tag("<li", <<Attr("id", <<"fn:">> \o prefix \o slug)>>)>>

\* footnoteReturnLink
footnoteReturnLink(prefix, slug) ==
    << Frag(" "),
       Tag("<a", <<Attr("class", <<"footnote-return">>),
                   Attr("href", <<"#fnref:">> \o prefix \o slug)>>),
       Frag("FootnoteReturnLinkContents"),
       Tag("</a>", <<>>) >>

\* Renderer.linkEnter
linkEnter(st, o, link) ==
    IF addAbsPrefixPanics(o, link.Destination) THEN Panic(st)
    ELSE LET dest == addAbsPrefix(o, link.Destination)
             href == <<Attr("href", dest)>>
         IN  IF link.NoteID # 0
             THEN Ok(outs(st, footnoteRef(o.FootnoteAnchorPrefix, link)))
             ELSE IF isRelativeLinkPanics(dest) THEN Panic(st)
             ELSE LET attrs == appendLinkAttrs(href, o, dest)
                      withTitle == IF Len(link.Title) > 0
                                   THEN Append(attrs, Attr("title", link.Title))
                                   ELSE attrs
                  IN  Ok(outTag(st, "<a", withTitle))

\* Renderer.linkExit
linkExit(st, o, link) ==
    IF link.NoteID = 0 THEN Ok(outs(st, <<Tag("</a>", <<>>)>>)) ELSE Ok(st)

\* Renderer.link
link(st, o, node, entering) ==
    IF needSkipLink(o, node)
    THEN Ok(outOneOf(st, entering, "<tt>", "</tt>"))
    ELSE IF entering THEN linkEnter(st, o, node) ELSE linkExit(st, o, node)

\* a variant that raises the depth only for the outermost image
imageEnterCountsOnce(st, o, node) ==
    IF addAbsPrefixPanics(o, node.Destination) THEN Panic(st)
    ELSE LET dest == addAbsPrefix(o, node.Destination)
         IN  IF st.disableTags = 0
             THEN Ok([outs(escapeTo(outs(st, <<Frag("<img src=\"")>>),
                                    <<[kind |-> "text", name |-> "dest",
                                       attrs |-> <<Attr("src", dest)>>]>>),
                           <<Frag("\" alt=\"")>>)
                      EXCEPT !.disableTags = @ + 1])
             ELSE Ok(st)

\* Renderer.imageEnter
imageEnter(st, o, node) ==
    IF addAbsPrefixPanics(o, node.Destination) THEN Panic(st)
    ELSE LET dest == addAbsPrefix(o, node.Destination)
             st1 == IF st.disableTags = 0
                    THEN outs(escapeTo(outs(st, <<Frag("<img src=\"")>>),
                                       <<[kind |-> "text", name |-> "dest",
                                          attrs |-> <<Attr("src", dest)>>]>>),
                              <<Frag("\" alt=\"")>>)
                    ELSE st
         IN  Ok([st1 EXCEPT !.disableTags = @ + 1])

\* Renderer.imageExit
imageExit(st, o, node) ==
    LET st1 == [st EXCEPT !.disableTags = @ - 1]
    IN  IF st1.disableTags = 0
        THEN LET st2 == IF node.Title # <<>>
                        THEN escapeTo(outs(st1, <<Frag("\" title=\"")>>),
                                      <<[kind |-> "text", name |-> "title",
                                         attrs |-> <<Attr("title", node.Title)>>]>>)
                        ELSE st1
             IN  Ok(outs(st2, <<Frag("\" />")>>))
        ELSE Ok(st1)

\* Renderer.image
image(st, o, node, entering) ==
    IF entering THEN imageEnter(st, o, node) ELSE imageExit(st, o, node)

----------------------------------------------------------------------------
\* Block-level renderers.  A node carries the fields of its data and its
\* position: prev is the kind of the previous sibling ("nil" when there is
\* none), next whether a sibling follows.

isListData(n) == n.kind = "List"
isListTight(n) == n.kind = "List" /\ n.Tight
isListItemData(n) == n.kind = "ListItem"
isListItemTerm(n) == n.kind = "ListItem" /\ "Term" \in n.ListFlags
isBlockQuoteData(n) == n.kind = "BlockQuote"
isDocumentData(n) == n.kind = "Document"

\* skipParagraphTags that forgets the tightness of the list
skipParagraphTagsTermOnly(parent, grandparent) ==
    IF grandparent.kind = "nil" \/ ~isListData(grandparent) THEN FALSE
    ELSE isListItemTerm(parent)

\* skipParagraphTags
skipParagraphTags(parent, grandparent) ==
    IF grandparent.kind = "nil" \/ ~isListData(grandparent) THEN FALSE
    ELSE grandparent.Tight \/ isListItemTerm(parent)

ParagraphCrAfter ==
    {"HTMLBlock", "List", "Paragraph", "Heading", "CodeBlock", "BlockQuote", "HorizontalRule"}

\* Renderer.paragraphEnter
paragraphEnter(st, node, parent) ==
    LET st1 == IF node.prev \in ParagraphCrAfter THEN cr(st) ELSE st
        st2 == IF isBlockQuoteData(parent) /\ node.prev = "nil" THEN cr(st1) ELSE st1
    IN  outs(st2, <<Tag("<p>", <<>>)>>)

\* Renderer.paragraphExit
paragraphExit(st, node, parent) ==
    LET st1 == outs(st, <<Tag("</p>", <<>>)>>)
    IN  IF ~(isListItemData(parent) /\ ~node.next) THEN cr(st1) ELSE st1

\* Renderer.paragraph
paragraph(st, node, parent, grandparent, entering) ==
    IF skipParagraphTags(parent, grandparent) THEN st
    ELSE IF entering THEN paragraphEnter(st, node, parent)
    ELSE paragraphExit(st, node, parent)

\* headingOpenTagFromLevel
headingOpenTagFromLevel(level) ==
    IF level < 1 \/ level > 5 THEN "<h6"
    ELSE <<"<h1", "<h2", "<h3", "<h4", "<h5">>[level]

\* headingCloseTagFromLevel
headingCloseTagFromLevel(level) ==
    IF level < 1 \/ level > 5 THEN "</h6>"
    ELSE <<"</h1>", "</h2>", "</h3>", "</h4>", "</h5>">>[level]

\* Renderer.headingEnter: [st, reg]
headingEnter(st, o, reg, node) ==
    LET class == IF node.IsTitleblock THEN <<Attr("class", <<"title">>)>> ELSE <<>>
        u == ensureUniqueHeadingID(reg, node.HeadingID)
        attrs == IF node.HeadingID # <<>>
                 THEN Append(class, Attr("id", o.HeadingIDPrefix \o u.id \o o.HeadingIDSuffix))
                 ELSE class
    IN  [st |-> outTag(cr(st), headingOpenTagFromLevel(node.Level), attrs),
         reg |-> IF node.HeadingID # <<>> THEN u.reg ELSE reg]

\* Renderer.headingExit
headingExit(st, node, parent) ==
    LET st1 == outs(st, <<Tag(headingCloseTagFromLevel(node.Level), <<>>)>>)
    IN  IF ~(isListItemData(parent) /\ ~node.next) THEN cr(st1) ELSE st1

ListOpenTag(flags) ==
    IF "Definition" \in flags THEN "<dl" ELSE IF "Ordered" \in flags THEN "<ol" ELSE "<ul"

ListCloseTag(flags) ==
    IF "Definition" \in flags THEN "</dl>" ELSE IF "Ordered" \in flags THEN "</ol>" ELSE "</ul>"

\* Renderer.listEnter
listEnter(st, o, node, parent, grandparent) ==
    LET st1 == IF node.IsFootnotesList
               THEN cr(outHRTag(outs(st, <<NL, Tag("<div", <<Attr("class", <<"footnotes">>)>>),
                                           NL, NL>>), o))
               ELSE st
        st2 == cr(st1)
        st3 == IF isListItemData(parent) /\ isListTight(grandparent) THEN cr(st2) ELSE st2
    IN  cr(outTag(st3, ListOpenTag(node.ListFlags), <<>>))

\* Renderer.listExit
listExit(st, o, node, parent) ==
    LET st1 == outs(st, <<Tag(ListCloseTag(node.ListFlags), <<>>)>>)
        st2 == IF isListItemData(parent) /\ node.next THEN cr(st1) ELSE st1
        st3 == IF isDocumentData(parent) \/ isBlockQuoteData(parent) THEN cr(st2) ELSE st2
    IN  IF node.IsFootnotesList THEN outs(st3, <<NL, Tag("</div>", <<>>), NL>>) ELSE st3

\* itemOpenCR: the parent of a list item is a list
itemOpenCR(node, parent) ==
    IF node.prev = "nil" THEN FALSE
    ELSE ~parent.Tight /\ "Definition" \notin parent.ListFlags

ItemOpenTag(flags) ==
    IF "Term" \in flags THEN "<dt>" ELSE IF "Definition" \in flags THEN "<dd>" ELSE "<li>"

ItemCloseTag(flags) ==
    IF "Term" \in flags THEN "</dt>" ELSE IF "Definition" \in flags THEN "</dd>" ELSE "</li>"

\* Renderer.listItemEnter: RefLink <<>> is the nil reference
listItemEnter(st, o, node, parent) ==
    LET st1 == IF itemOpenCR(node, parent) THEN cr(st) ELSE st
    IN  IF node.RefLink # <<>>
        THEN outs(st1, footnoteItem(o.FootnoteAnchorPrefix, slugify(node.RefLink)))
        ELSE outs(st1, <<Tag(ItemOpenTag(node.ListFlags), <<>>)>>)

\* Renderer.listItemExit
listItemExit(st, o, node) ==
    LET st1 == IF node.RefLink # <<>> /\ Flag(o, "FootnoteReturnLinks")
               THEN outs(st, footnoteReturnLink(o.FootnoteAnchorPrefix, slugify(node.RefLink)))
               ELSE st
    IN  cr(outs(st1, <<Tag(ItemCloseTag(node.ListFlags), <<>>)>>))

\* appendLanguageAttr: Info is the language, <<>> when there is none
appendLanguageAttr(info) ==
    IF Len(info) = 0 THEN <<>> ELSE <<Attr("class", <<"language-">> \o info)>>

\* Renderer.codeBlock
codeBlock(st, node, parent) ==
    LET st1 == outs(cr(st), <<Tag("<pre>", <<>>)>>)
        st2 == escapeTo(outTag(st1, "<code", appendLanguageAttr(node.Info)), <<Text("literal")>>)
        st3 == outs(outs(st2, <<Tag("</code>", <<>>)>>), <<Tag("</pre>", <<>>)>>)
    IN  IF ~isListItemData(parent) THEN cr(st3) ELSE st3

\* cellAlignment and Renderer.tableCell
tableCell(st, node, entering) ==
    IF ~entering
    THEN cr(outOneOf(st, node.IsHeader, "</th>", "</td>"))
    ELSE LET attrs == IF node.Align \in {"left", "right", "center"}
                      THEN <<Attr("align", <<node.Align>>)>> ELSE <<>>
             st1 == IF node.prev = "nil" THEN cr(st) ELSE st
         IN  outTag(st1, IF node.IsHeader THEN "<th" ELSE "<td", attrs)

\* Renderer.tableBody
tableBody(st, node, entering) ==
    IF entering
    THEN LET st1 == outs(cr(st), <<Tag("<tbody>", <<>>)>>)
         IN  IF ~node.hasChild THEN cr(st1) ELSE st1
    ELSE cr(outs(st, <<Tag("</tbody>", <<>>)>>))

----------------------------------------------------------------------------
\* RenderNode.

RenderableKinds ==
    {"Text", "Softbreak", "Hardbreak", "Emph", "Strong", "Del", "BlockQuote",
     "Link", "Image", "Code", "CodeBlock", "Document", "Paragraph", "HTMLSpan",
     "HTMLBlock", "Heading", "HorizontalRule", "List", "ListItem", "Table",
     "TableCell", "TableHead", "TableBody", "TableRow"}

\* the result of one RenderNode call: the writer state, the registry, the
\* returned status and whether the hook handled the node
Result(st, reg, stat, hooked) == [st |-> st, reg |-> reg, status |-> stat, hooked |-> hooked]

\* the type switch of RenderNode
dispatch(st, reg, o, node, parent, grandparent, entering) ==
    LET k == node.kind
        go(st1) == Result(st1, reg, "GoToNext", FALSE)
        from(r) == Result(r.st, reg, r.status, FALSE)
    IN  CASE k = "Text" -> go(escapeTo(st, <<Text("literal")>>))
          [] k = "Softbreak" -> go(cr(st))
          [] k = "Hardbreak" -> go(cr(outOneOf(st, ~Flag(o, "UseXHTML"), "<br>", "<br />")))
          [] k = "Emph" -> go(outOneOf(st, entering, "<em>", "</em>"))
          [] k = "Strong" -> go(outOneOf(st, entering, "<strong>", "</strong>"))
          [] k = "Del" -> go(outOneOf(st, entering, "<del>", "</del>"))
          [] k = "BlockQuote" -> go(outOneOfCr(st, entering, "<blockquote>", "</blockquote>"))
          [] k = "Link" -> from(link(st, o, node, entering))
          [] k = "Image" ->
                IF Flag(o, "SkipImages") THEN Result(st, reg, "SkipChildren", FALSE)
                ELSE from(image(st, o, node, entering))
          [] k = "Code" ->
                go(outs(escapeTo(outs(st, <<Tag("<code>", <<>>)>>), <<Text("literal")>>),
                        <<Tag("</code>", <<>>)>>))
          [] k = "CodeBlock" -> go(codeBlock(st, node, parent))
          [] k = "Document" -> go(st)
          [] k = "Paragraph" -> go(paragraph(st, node, parent, grandparent, entering))
          [] k = "HTMLSpan" -> go(IF ~Flag(o, "SkipHTML") THEN out(st, node.Literal) ELSE st)
          [] k = "HTMLBlock" ->
                go(IF Flag(o, "SkipHTML") THEN st ELSE cr(out(cr(st), node.Literal)))
          [] k = "Heading" ->
                IF entering
                THEN LET h == headingEnter(st, o, reg, node)
                     IN  Result(h.st, h.reg, "GoToNext", FALSE)
                ELSE go(headingExit(st, node, parent))
          [] k = "HorizontalRule" -> go(cr(outHRTag(cr(st), o)))
          [] k = "List" ->
                go(IF entering THEN listEnter(st, o, node, parent, grandparent)
                   ELSE listExit(st, o, node, parent))
          [] k = "ListItem" ->
                go(IF entering THEN listItemEnter(st, o, node, parent)
                   ELSE listItemExit(st, o, node))
          [] k = "Table" -> go(outOneOfCr(st, entering, "<table>", "</table>"))
          [] k = "TableCell" -> go(tableCell(st, node, entering))
          [] k = "TableHead" -> go(outOneOfCr(st, entering, "<thead>", "</thead>"))
          [] k = "TableBody" -> go(tableBody(st, node, entering))
          [] k = "TableRow" -> go(outOneOfCr(st, entering, "<tr>", "</tr>"))
          [] OTHER -> Result(st, reg, "panic", FALSE)

\* RenderNode that runs the default dispatch whatever the hook reports
RenderNodeIgnoresHook(st, reg, o, node, parent, grandparent, entering, hook) ==
    dispatch(st, reg, o, node, parent, grandparent, entering)

\* RenderNode that skips a node of an unknown kind
RenderNodeSkipsUnknown(st, reg, o, node, parent, grandparent, entering, hook) ==
    IF o.RenderNodeHook /\ hook.didHandle THEN Result(st, reg, hook.status, TRUE)
    ELSE IF node.kind \notin RenderableKinds THEN Result(st, reg, "GoToNext", FALSE)
    ELSE dispatch(st, reg, o, node, parent, grandparent, entering)

\* Renderer.RenderNode; hook is what RenderNodeHook returns for this call when
\* a hook is installed
RenderNode(st, reg, o, node, parent, grandparent, entering, hook) ==
    IF o.RenderNodeHook /\ hook.didHandle THEN Result(st, reg, hook.status, TRUE)
    ELSE dispatch(st, reg, o, node, parent, grandparent, entering)

----------------------------------------------------------------------------
\* Trees.  The walk generates the tree as it goes: each step picks the next
\* node among the kinds its parent may hold.

NodeDefault ==
    [kind |-> "Document", Destination |-> <<>>, Title |-> <<>>, NoteID |-> 0,
     Tight |-> FALSE, ListFlags |-> {}, IsFootnotesList |-> FALSE, RefLink |-> <<>>,
     Literal |-> <<>>, Level |-> 1, HeadingID |-> <<>>, IsTitleblock |-> FALSE,
     Info |-> <<>>, Align |-> "none", IsHeader |-> FALSE,
     prev |-> "nil", next |-> FALSE, hasChild |-> TRUE]

Node(kind) == [NodeDefault EXCEPT !.kind = kind]
NoNode == Node("nil")

\* ast.Node.isContainer: every kind but these is visited entering and exiting
LeafKinds ==
    {"HorizontalRule", "Text", "HTMLBlock", "CodeBlock", "Softbreak", "Hardbreak",
     "Code", "HTMLSpan"}

IsContainer(n) == n.kind \notin LeafKinds

LinkJs == <<"j", "a", "v", "a", "s", "c", "r", "i", "p", "t", ":", "x">>
LinkFragment == <<"#", "a">>
LinkDotRelative == <<".", "/", "a">>
LinkNote == <<"n">>

LinkDests ==
    {<<>>, LinkPath, LinkJs, LinkHttpA1, LinkMailto, LinkFragment, LinkDotRelative, LinkNote}

LinkNodes(dests) ==
    {[Node("Link") EXCEPT !.Destination = d, !.NoteID = n, !.Title = t] :
        d \in dests, n \in {0, 1}, t \in {<<>>, <<"t">>}}

ImageNodes(dests) ==
    {[Node("Image") EXCEPT !.Destination = d, !.Title = t] : d \in dests, t \in {<<>>, <<"t">>}}

ParagraphNodes ==
    {[Node("Paragraph") EXCEPT !.prev = "nil", !.next = FALSE],
     [Node("Paragraph") EXCEPT !.prev = "Paragraph", !.next = TRUE]}

ListNodes ==
    {[Node("List") EXCEPT !.Tight = t, !.ListFlags = f] :
        t \in BOOLEAN, f \in {{}, {"Ordered"}, {"Definition"}}}
    \cup {[Node("List") EXCEPT !.IsFootnotesList = TRUE, !.ListFlags = {"Ordered"}]}

ListItemNodes ==
    {[Node("ListItem") EXCEPT !.ListFlags = f, !.RefLink = r] :
        f \in SUBSET {"Definition", "Term"}, r \in {<<>>, LinkNote}}
    \cup {[Node("ListItem") EXCEPT !.prev = "ListItem"]}

HeadingNodes ==
    {[Node("Heading") EXCEPT !.Level = 1, !.HeadingID = IdA],
     [Node("Heading") EXCEPT !.Level = 6],
     [Node("Heading") EXCEPT !.Level = 1, !.HeadingID = IdA, !.IsTitleblock = TRUE]}

SpanNodes ==
    {[Node("HTMLSpan") EXCEPT !.Literal = <<Tag("<b>", <<>>)>>]}

TableCellNodes ==
    {[Node("TableCell") EXCEPT !.IsHeader = TRUE, !.Align = "left"],
     [Node("TableCell") EXCEPT !.prev = "TableCell"]}

InlineNodes ==
    {Node("Text"), Node("Emph"), Node("Code"), Node("Softbreak"), Node("Hardbreak"),
     [Node("Link") EXCEPT !.Destination = LinkPath],
     [Node("Link") EXCEPT !.Destination = LinkNote, !.NoteID = 1]}
    \cup SpanNodes \cup ImageNodes({LinkPath})

DocumentChildren ==
    ParagraphNodes \cup ListNodes \cup HeadingNodes
    \cup {Node("BlockQuote"), Node("CodeBlock"), Node("HorizontalRule"),
          Node("Table"), Node("Caption"),
          [Node("CodeBlock") EXCEPT !.Info = <<"g", "o">>],
          [Node("HTMLBlock") EXCEPT
              !.Literal = <<Tag("<div>", <<>>), Text("x"), Tag("</div>", <<>>)>>]}

TableChildren ==
    {Node("TableHead"), Node("TableBody"), [Node("TableBody") EXCEPT !.hasChild = FALSE]}

\* the nodes a node of the "tree" scope may hold
TreeChildren(parent) ==
    LET k == parent.kind
    IN  CASE k = "Document" -> DocumentChildren
          [] k = "List" -> ListItemNodes
          [] k = "ListItem" -> ParagraphNodes
          [] k = "BlockQuote" -> ParagraphNodes
          [] k = "Paragraph" -> InlineNodes
          [] k = "Image" -> InlineNodes
          [] k = "Table" -> TableChildren
          [] k \in {"TableHead", "TableBody"} ->
                IF parent.hasChild THEN {Node("TableRow")} ELSE {}
          [] k = "TableRow" -> TableCellNodes
          [] OTHER -> {Node("Text")}

LinkScopeLinks == LinkNodes(LinkDests)
LinkScopeTop == LinkScopeLinks \cup ImageNodes({LinkPath})

\* the nodes a node of the "link" scope may hold
LinkChildren(parent) ==
    LET k == parent.kind
    IN  CASE k = "Document" -> LinkScopeTop
          [] k = "Image" -> LinkScopeLinks
          [] OTHER -> {Node("Text")}

\* one node of every kind RenderNode knows, and two it does not
HookScopeTop ==
    {Node(k) : k \in RenderableKinds \ {"Document", "Link", "Image"}}
    \cup {[Node(k) EXCEPT !.Destination = LinkPath] : k \in {"Link", "Image"}}
    \cup {Node("Caption"), Node("Math")}

\* the nodes a node of the "hook" scope may hold
HookChildren(parent) ==
    IF parent.kind = "Document" THEN HookScopeTop ELSE {Node("Text")}

Children(sc, parent) ==
    CASE sc = "link" -> LinkChildren(parent)
      [] sc = "hook" -> HookChildren(parent)
      [] OTHER -> TreeChildren(parent)

FlagNames ==
    {"SkipHTML", "SkipImages", "SkipLinks", "Safelink", "NofollowLinks",
     "NoreferrerLinks", "HrefTargetBlank", "UseXHTML", "FootnoteReturnLinks", "TOC"}

OptsDefault ==
    [f \in FlagNames |-> FALSE] @@
    [AbsolutePrefix |-> <<>>, FootnoteAnchorPrefix |-> <<>>,
     HeadingIDPrefix |-> <<>>, HeadingIDSuffix |-> <<>>, RenderNodeHook |-> FALSE]

\* the configurations of the "link" scope
LinkOpts ==
    {[OptsDefault EXCEPT !.SkipLinks = a, !.Safelink = b, !.NofollowLinks = c,
                         !.NoreferrerLinks = d, !.HrefTargetBlank = e,
                         !.AbsolutePrefix = p, !.FootnoteAnchorPrefix = q] :
        a \in BOOLEAN, b \in BOOLEAN, c \in BOOLEAN, d \in BOOLEAN, e \in BOOLEAN,
        p \in {<<>>, <<"p">>}, q \in {<<>>, <<"f">>}}

\* the configurations of the "tree" scope
TreeOpts ==
    {[OptsDefault EXCEPT !.SkipHTML = a, !.SkipImages = b] : a \in BOOLEAN, b \in BOOLEAN}

\* the configurations of the "hook" scope
HookOpts ==
    {[OptsDefault EXCEPT !.RenderNodeHook = a, !.SkipImages = b] :
        a \in BOOLEAN, b \in BOOLEAN}

----------------------------------------------------------------------------
\* The tree walk: ast.Walk calling RenderNode.  stack holds the container nodes
\* entered and not yet exited, the root first.

GoToNext == "GoToNext"
SkipChildren == "SkipChildren"
Terminate == "Terminate"

NotHandled == [didHandle |-> FALSE, status |-> GoToNext]

\* what an installed hook may return for a call
HookReturns(o) ==
    IF o.RenderNodeHook
    THEN {NotHandled} \cup {[didHandle |-> TRUE, status |-> x] :
                               x \in {GoToNext, SkipChildren, Terminate}}
    ELSE {NotHandled}

ParentOf(stk) == IF Len(stk) = 0 THEN NoNode ELSE stk[Len(stk)].node
GrandparentOf(stk) == IF Len(stk) < 2 THEN NoNode ELSE stk[Len(stk) - 1].node

LastIdle ==
    [node |-> NoNode, parent |-> NoNode, grandparent |-> NoNode, entering |-> FALSE,
     wrote |-> <<>>, sink |-> <<>>, status |-> GoToNext, hooked |-> FALSE,
     hook |-> NotHandled, disabledBefore |-> 0, entered |-> <<>>, enterHooked |-> FALSE]

WalkIdle ==
    /\ opts = OptsDefault
    /\ scope = "none"
    /\ stack = <<>>
    /\ visited = 0
    /\ last = LastIdle
    /\ lastOutputLen = 0
    /\ disableTags = 0
    /\ status = "idle"

WalkInit(sc, optsSet) ==
    /\ opts \in optsSet
    /\ scope = sc
    /\ stack = <<>>
    /\ visited = 0
    /\ last = LastIdle
    /\ lastOutputLen = 0
    /\ disableTags = 0
    /\ status = "start"

\* the walk's state after a callback returned stat
WalkStatus(stat, finished) ==
    CASE stat = "panic" -> "panic"
      [] stat = Terminate -> "terminated"
      [] OTHER -> IF finished THEN "done" ELSE "walking"

\* the callback on node n, entering
Enter(n) ==
    \E hook \in HookReturns(opts) :
    \E r \in {RenderNode(Writer(lastOutputLen, disableTags), headingIDs, opts, n,
                         ParentOf(stack), GrandparentOf(stack), TRUE, hook)} :
        LET descend == r.status = GoToNext /\ IsContainer(n)
        IN  /\ last' = [node |-> n, parent |-> ParentOf(stack),
                        grandparent |-> GrandparentOf(stack), entering |-> TRUE,
                        wrote |-> r.st.w, sink |-> r.st.sink, status |-> r.status,
                        hooked |-> r.hooked, hook |-> hook,
                        disabledBefore |-> disableTags, entered |-> <<>>,
                        enterHooked |-> FALSE]
            /\ lastOutputLen' = r.st.lastOutputLen
            /\ disableTags' = r.st.disableTags
            /\ headingIDs' = r.reg
            /\ stack' = IF descend
                        THEN Append(stack, [node |-> n, wrote |-> r.st.w, hooked |-> r.hooked])
                        ELSE stack
            /\ visited' = visited + 1
            /\ status' = WalkStatus(r.status, Len(stack) = 0 /\ ~descend)
            /\ UNCHANGED <<opts, scope, idCalls, fnVars, tocVars>>

\* the walk starts at the Document node
VisitRoot ==
    /\ status = "start"
    /\ Enter(Node("Document"))

\* the walk enters a child of the innermost open node
VisitChild ==
    /\ status = "walking"
    /\ Len(stack) > 0
    /\ visited < MaxNodes
    /\ \E n \in Children(scope, ParentOf(stack)) :
          /\ IsContainer(n) => Len(stack) < MaxDepth
          /\ (n.kind = "Heading" /\ n.HeadingID # <<>>) =>
                 Cardinality(DOMAIN headingIDs) < MaxCalls
          /\ Enter(n)

\* the walk leaves the innermost open node: the callback on it, exiting
Exit ==
    /\ status = "walking"
    /\ Len(stack) > 0
    /\ \E hook \in HookReturns(opts) :
        LET top == stack[Len(stack)]
            rest == SubSeq(stack, 1, Len(stack) - 1)
        IN  \E r \in {RenderNode(Writer(lastOutputLen, disableTags), headingIDs, opts,
                                 top.node, ParentOf(rest), GrandparentOf(rest), FALSE, hook)} :
            /\ last' = [node |-> top.node, parent |-> ParentOf(rest),
                        grandparent |-> GrandparentOf(rest), entering |-> FALSE,
                        wrote |-> r.st.w, sink |-> r.st.sink, status |-> r.status,
                        hooked |-> r.hooked, hook |-> hook,
                        disabledBefore |-> disableTags, entered |-> top.wrote,
                        enterHooked |-> top.hooked]
            /\ lastOutputLen' = r.st.lastOutputLen
            /\ disableTags' = r.st.disableTags
            /\ headingIDs' = r.reg
            /\ stack' = rest
            /\ status' = WalkStatus(r.status, Len(rest) = 0)
            /\ UNCHANGED <<opts, scope, visited, idCalls, fnVars, tocVars>>

----------------------------------------------------------------------------
\* A page render in one session: RenderHeader, which runs writeTOC when the TOC
\* flag is set, then the body render of the same document's headings.

PageLevels == {1, 2}

PageDocs ==
    SeqsUpTo({HeadingNode(l, FALSE) : l \in PageLevels} \cup {HeadingNode(1, TRUE)}, MaxCalls)

PageOpts ==
    {[OptsDefault EXCEPT !.TOC = t, !.HeadingIDPrefix = p, !.HeadingIDSuffix = q] :
        t \in BOOLEAN, p \in {<<>>, <<"x">>}, q \in {<<>>, <<"y">>}}

PageInit ==
    /\ doc \in PageDocs
    /\ tocPos = 1
    /\ tocPhase = "header"
    /\ inHeading = FALSE
    /\ tocLevel = 0
    /\ headingCount = 0
    /\ buf = <<>>
    /\ bodyPos = 1
    /\ bodyPhase = "enter"
    /\ body = <<>>
    /\ opts \in PageOpts
    /\ scope = "page"
    /\ stack = <<>>
    /\ visited = 0
    /\ last = LastIdle
    /\ lastOutputLen = 0
    /\ disableTags = 0
    /\ status = "idle"

\* RenderHeader: `if r.opts.Flags&TOC != 0 { r.writeTOC(w, ast) }`
RenderHeader ==
    /\ tocPhase = "header"
    /\ tocPhase' = IF Flag(opts, "TOC") THEN "enter" ELSE "done"
    /\ UNCHANGED <<doc, tocPos, inHeading, tocLevel, headingCount, buf, bodyVars,
                 fnVars, idVars, walkVars>>

\* the i-th heading of the document, as the body render meets it
BodyNode(i) ==
    [Node("Heading") EXCEPT !.Level = doc[i].Level,
                            !.HeadingID = doc[i].HeadingID,
                            !.IsTitleblock = doc[i].IsTitleblock,
                            !.prev = IF i = 1 THEN "nil" ELSE "Heading",
                            !.next = i < Len(doc)]

\* one RenderNode call of the body render, its output appended to body
BodyCall(n, parent, grandparent, entering, nextPos, nextPhase) ==
    /\ tocPhase = "done"
    /\ \E r \in {RenderNode(Writer(lastOutputLen, disableTags), headingIDs, opts, n,
                            parent, grandparent, entering, NotHandled)} :
          /\ body' = body \o r.st.w
          /\ lastOutputLen' = r.st.lastOutputLen
          /\ disableTags' = r.st.disableTags
          /\ headingIDs' = r.reg
          /\ last' = [node |-> n, parent |-> parent, grandparent |-> grandparent,
                      entering |-> entering, wrote |-> r.st.w, sink |-> r.st.sink,
                      status |-> r.status, hooked |-> r.hooked, hook |-> NotHandled,
                      disabledBefore |-> disableTags, entered |-> <<>>,
                      enterHooked |-> FALSE]
    /\ bodyPos' = nextPos
    /\ bodyPhase' = nextPhase
    /\ UNCHANGED <<doc, tocPos, tocPhase, inHeading, tocLevel, headingCount, buf,
                 idCalls, opts, scope, stack, visited, status, fnVars>>

BodyEnterHeading ==
    /\ bodyPhase = "enter"
    /\ bodyPos <= Len(doc)
    /\ BodyCall(BodyNode(bodyPos), Node("Document"), NoNode, TRUE, bodyPos, "child")

BodyChild ==
    /\ bodyPhase = "child"
    /\ BodyCall(Node("Text"), BodyNode(bodyPos), Node("Document"), TRUE, bodyPos, "exit")

BodyExitHeading ==
    /\ bodyPhase = "exit"
    /\ BodyCall(BodyNode(bodyPos), Node("Document"), NoNode, FALSE, bodyPos + 1, "enter")

\* the walk leaves the Document node
BodyFinish ==
    /\ bodyPhase = "enter"
    /\ bodyPos > Len(doc)
    /\ BodyCall(Node("Document"), NoNode, NoNode, FALSE, bodyPos, "done")

----------------------------------------------------------------------------
\* Specifications.

\* the pure functions on generated inputs
FnNext == CallIsSafeLink \/ CallIsRelativeLink \/ CallSlugify \/ CallSlugifyAgain
InitFn == FnInit /\ IdIdle /\ TocIdle /\ WalkIdle
SpecFn == InitFn /\ [][FnNext]_vars

\* a session of ensureUniqueHeadingID calls on a fresh registry
InitIDs == FnIdle /\ IdIdle /\ TocIdle /\ WalkIdle
SpecIDs == InitIDs /\ [][EnsureUnique]_vars

\* writeTOC over a document's headings
TocNext == TocEnterHeading \/ TocTitleblock \/ TocChild \/ TocExitHeading \/ TocFinish
InitTOC == FnIdle /\ IdIdle /\ TocInit /\ WalkIdle
SpecTOC == InitTOC /\ [][TocNext]_vars

\* RenderHeader and the body render of one document
PageNext ==
    \/ RenderHeader
    \/ TocNext
    \/ BodyEnterHeading \/ BodyChild \/ BodyExitHeading \/ BodyFinish
InitPage == FnIdle /\ IdIdle /\ PageInit
SpecPage == InitPage /\ [][PageNext]_vars

\* the walk of a tree of links and images under every link configuration
WalkNext == VisitRoot \/ VisitChild \/ Exit
InitLink == FnIdle /\ IdIdle /\ TocIdle /\ WalkInit("link", LinkOpts)
SpecLink == InitLink /\ [][WalkNext]_vars

\* the walk of a tree holding one node of every kind, with and without a hook
InitHook == FnIdle /\ IdIdle /\ TocIdle /\ WalkInit("hook", HookOpts)
SpecHook == InitHook /\ [][WalkNext]_vars

\* the walk of a document tree
Init == FnIdle /\ IdIdle /\ TocIdle /\ WalkInit("tree", TreeOpts)
Next == WalkNext
Spec == Init /\ [][Next]_vars

----------------------------------------------------------------------------
\* Properties.

Range(f) == {f[i] : i \in DOMAIN f}

\* C2 as stated: isSafeLink("/path") is true, isSafeLink("javascript:alert(1)")
\* is false, isSafeLink("http://a") is false and isSafeLink("http://a1") is true.
C2_AsStated ==
    fnpc = "isSafeLink" =>
        /\ (arg = LinkPath => boolRes)
        /\ (arg = LinkJavascript => ~boolRes)
        /\ (arg = LinkHttpA => ~boolRes)
        /\ (arg = LinkHttpA1 => boolRes)

\* C2, amended: isSafeLink("/path") is true, isSafeLink("javascript:alert(1)")
\* is false, isSafeLink("http://a") is true (the "a" is the alphanumeric after
\* the scheme; it is "http://" alone that is not safe) and isSafeLink("http://a1")
\* is true.
C2_SafeLinkExamples ==
    fnpc = "isSafeLink" =>
        /\ (arg = LinkPath => boolRes)
        /\ (arg = LinkJavascript => ~boolRes)
        /\ (arg = LinkHttpA => boolRes)
        /\ (arg = LinkHttpBare => ~boolRes)
        /\ (arg = LinkHttpA1 => boolRes)

C2_Witness == fnpc = "isSafeLink" /\ arg = LinkHttpA /\ boolRes

\* C3: from a fresh registry, in a session of ensureUniqueHeadingID calls in
\* which the "-1" fallback branch is never taken, the returned ids are pairwise
\* distinct and each returned id is a key of the registry after its call.
C3_DistinctIDs ==
    (\A i \in 1..Len(idCalls) : "fallback" \notin Range(idCalls[i].branches)) =>
        /\ \A i, j \in 1..Len(idCalls) : i < j => idCalls[i].ret # idCalls[j].ret
        /\ \A i \in 1..Len(idCalls) : idCalls[i].ret \in DOMAIN idCalls[i].after

C3_Witness ==
    /\ Len(idCalls) = 3
    /\ \A i \in 1..3 : idCalls[i].cand = IdA /\ "fallback" \notin Range(idCalls[i].branches)
    /\ idCalls[3].ret = IdA2

\* the probe of a call: candidate-{count+1}
ProbeOf(c) == c.cand \o <<"-">> \o Itoa(c.before[c.cand] + 1)

\* the candidate of a call was registered, and so was its probe
FallbackCase(c) == c.cand \in DOMAIN c.before /\ ProbeOf(c) \in DOMAIN c.before

C5_AsStated ==
    fnpc = "slugifyTwice" =>
        /\ slug2 = slug1
        /\ (slug1 = <<>> \/ (slug1[1] # "-" /\ slug1[Len(slug1)] # "-"))

\* the levels of the headings of d that are not title blocks
RECURSIVE TocLevels(_)
TocLevels(d) ==
    IF d = <<>> THEN <<>>
    ELSE (IF d[1].IsTitleblock THEN <<>> ELSE <<d[1].Level>>) \o TocLevels(Tail(d))

ListTagNames == {"<ul>", "<li>", "</li>", "</ul>"}

\* the list tags of b, in order
RECURSIVE ListEvents(_)
ListEvents(b) ==
    IF b = <<>> THEN <<>>
    ELSE (IF b[1].name \in ListTagNames THEN <<b[1].name>> ELSE <<>>) \o ListEvents(Tail(b))

LevelsOfC6 == <<1, 2, 2, 1, 3>>

\* C6 as stated: over headings with levels [1,2,2,1,3] the list events are
\* open(ul,li); open(ul,li); sibling li; close(li,ul) twice then open(ul,li);
\* open(ul,li); and two closing (li,ul) pairs after the traversal.
C6_AsStated ==
    (tocPhase = "done" /\ TocLevels(doc) = LevelsOfC6) =>
        ListEvents(buf) =
            <<"<ul>", "<li>">> \o <<"<ul>", "<li>">> \o <<"</li>", "<li>">>
            \o <<"</li>", "</ul>", "</li>", "</ul>", "<ul>", "<li>">>
            \o <<"<ul>", "<li>">>
            \o <<"</li>", "</ul>", "</li>", "</ul>">>

\* C6, amended: over headings with levels [1,2,2,1,3] the list events are
\* open(ul,li) for level 1; open(ul,li) for level 2; sibling li at level 2;
\* close(li,ul) once then a sibling li (close li, open li) for the second
\* level-1 heading; open(ul,li) twice for level 3; and after the traversal
\* exactly three closing (li,ul) pairs, returning to depth 0.
C6_TocEvents ==
    (tocPhase = "done" /\ TocLevels(doc) = LevelsOfC6) =>
        /\ ListEvents(buf) =
              <<"<ul>", "<li>">> \o <<"<ul>", "<li>">> \o <<"</li>", "<li>">>
              \o <<"</li>", "</ul>", "</li>", "<li>">>
              \o <<"<ul>", "<li>", "<ul>", "<li>">>
              \o <<"</li>", "</ul>", "</li>", "</ul>", "</li>", "</ul>">>
        /\ tocLevel = 0

C6_Witness ==
    /\ tocPhase = "done"
    /\ TocLevels(doc) = LevelsOfC6
    /\ headingCount = 5

\* the skip policy as C1 words it: skip-links, or safe-links-only with a
\* destination neither accepted by isSafeLink nor prefixed by "mailto:"
PolicySkips(n) ==
    \/ Flag(opts, "SkipLinks")
    \/ (Flag(opts, "Safelink") /\ ~isSafeLink(n.Destination)
        /\ ~HasPrefix(n.Destination, <<"m", "a", "i", "l", "t", "o", ":">>))

\* w holds an anchor tag or an href attribute
HasAnchor(w) ==
    \E i \in 1..Len(w) :
        \/ w[i].name = "<a"
        \/ \E j \in 1..Len(w[i].attrs) : w[i].attrs[j].k = "href"

TT(entering) == IF entering THEN <<Tag("<tt>", <<>>)>> ELSE <<Tag("</tt>", <<>>)>>

\* C1 as stated: for every Link node the policy skips, RenderNode emits <tt>
\* on entering and </tt> on exiting, and no anchor and no href.
C1_AsStated ==
    (last.node.kind = "Link" /\ PolicySkips(last.node)) =>
        /\ last.wrote = TT(last.entering)
        /\ ~HasAnchor(last.wrote)

\* C1, amended: for every Link node the policy skips, RenderNode emits no
\* anchor and no href, whatever the title, the note-id, the absolute prefix and
\* the nofollow/noreferrer/target-blank flags; outside an image's alt text it
\* emits <tt> on entering and </tt> on exiting, and inside an image's alt text
\* (raw-tag suppression on) the sink strips these and nothing is emitted.
C1_SkippedLink ==
    (last.node.kind = "Link" /\ PolicySkips(last.node)) =>
        /\ last.status = GoToNext
        /\ ~HasAnchor(last.wrote)
        /\ (last.disabledBefore = 0 => last.wrote = TT(last.entering))
        /\ (last.disabledBefore > 0 => last.wrote = <<>>)

C1_Witness ==
    /\ last.node.kind = "Link"
    /\ ~last.entering
    /\ last.entered = TT(TRUE)
    /\ last.wrote = TT(FALSE)
    /\ last.node.Destination = LinkJs
    /\ last.node.NoteID # 0
    /\ last.node.Title # <<>>
    /\ Flag(opts, "Safelink") /\ ~Flag(opts, "SkipLinks")
    /\ Flag(opts, "NofollowLinks") /\ Flag(opts, "HrefTargetBlank")
    /\ opts.AbsolutePrefix # <<>>

\* the footnote reference of a link, as C7 words it
FootnoteRefOf(n) ==
    LET frag == opts.FootnoteAnchorPrefix \o slugify(n.Destination)
    IN  << Tag("<sup", <<Attr("class", <<"footnote-ref">>),
                         Attr("id", <<"fnref:">> \o frag)>>),
           Tag("<a", <<Attr("rel", <<"footnote">>), Attr("href", <<"#fn:">> \o frag)>>),
           [kind |-> "text", name |-> "NoteID", attrs |-> <<Attr("n", Itoa(n.NoteID))>>],
           Tag("</a>", <<>>),
           Tag("</sup>", <<>>) >>

\* C7 as stated: every Link node with a nonzero note-id renders, on entering,
\* as the footnote reference and, on exiting, emits nothing, under every flag
\* configuration.
C7_AsStated ==
    (last.node.kind = "Link" /\ last.node.NoteID # 0) =>
        IF last.entering
        THEN last.wrote = FootnoteRefOf(last.node) /\ last.status = GoToNext
        ELSE last.wrote = <<>>

\* C7, amended: a Link node with a nonzero note-id that the skip policy (C1)
\* does not degrade emits nothing on exiting and, on entering, renders as the
\* footnote reference to #fn:{prefix}{slug} with id fnref:{prefix}{slug};
\* inside an image's alt text the sink strips the leading <sup> tag of that
\* reference; and entering aborts with nothing written when the destination is
\* empty and an absolute prefix is configured.  A note link the policy skips
\* emits no footnote reference.
C7_FootnoteLink ==
    (last.node.kind = "Link" /\ last.node.NoteID # 0) =>
        IF PolicySkips(last.node)
        THEN \A i \in 1..Len(last.wrote) : last.wrote[i].name # "<sup"
        ELSE IF ~last.entering THEN last.wrote = <<>> /\ last.status = GoToNext
        ELSE IF last.node.Destination = <<>> /\ opts.AbsolutePrefix # <<>>
        THEN last.status = "panic" /\ last.wrote = <<>>
        ELSE /\ last.status = GoToNext
             /\ last.wrote = IF last.disabledBefore = 0
                             THEN FootnoteRefOf(last.node)
                             ELSE Tail(FootnoteRefOf(last.node))

C7_Witness ==
    /\ last.node.kind = "Link"
    /\ last.node.NoteID # 0
    /\ last.node.Destination = LinkPath
    /\ ~last.entering
    /\ last.entered = FootnoteRefOf(last.node)
    /\ last.wrote = <<>>
    /\ opts.FootnoteAnchorPrefix # <<>>
    /\ Flag(opts, "Safelink") /\ Flag(opts, "NoreferrerLinks")

\* C8: RenderNode aborts, with nothing written, on a node of a kind outside
\* the renderable kinds when the hook is absent or reports not-handled, and the
\* walk does not continue; when the hook reports handled, the default dispatch
\* is skipped and the hook's status is returned unchanged.
C8_UnknownKindAborts ==
    last.node.kind # "nil" =>
        IF opts.RenderNodeHook /\ last.hook.didHandle
        THEN /\ last.status = last.hook.status
             /\ last.hooked
             /\ last.wrote = <<>> /\ last.sink = <<>>
             /\ disableTags = last.disabledBefore
        ELSE last.node.kind \notin RenderableKinds =>
                 /\ last.status = "panic"
                 /\ last.wrote = <<>>
                 /\ status = "panic"
                 /\ ~ENABLED WalkNext

C8_Witness ==
    /\ last.node.kind = "Caption"
    /\ opts.RenderNodeHook
    /\ ~last.hook.didHandle
    /\ status = "panic"

\* b holds a <p> or a </p>
HasP(b) == \E i \in 1..Len(b) : b[i].name \in {"<p>", "</p>"}

\* the last call rendered a paragraph of a list item
ParagraphOfItem ==
    /\ last.node.kind = "Paragraph"
    /\ last.parent.kind = "ListItem"
    /\ last.grandparent.kind = "List"

\* C9 as stated: a paragraph of an item of a tight list emits no <p> and no
\* </p>; of a loose list, it emits <p> before and </p> after its content.
C9_AsStated ==
    ParagraphOfItem =>
        IF last.grandparent.Tight THEN ~HasP(last.wrote)
        ELSE Tag(IF last.entering THEN "<p>" ELSE "</p>", <<>>) \in Range(last.wrote)

\* C9, amended: a paragraph of an item of a tight list emits no <p> and no
\* </p>; of a loose list, it emits <p> before and </p> after its content unless
\* the item is a definition-list term, whose paragraphs render bare too.
C9_ParagraphTags ==
    ParagraphOfItem =>
        IF last.grandparent.Tight \/ "Term" \in last.parent.ListFlags
        THEN ~HasP(last.wrote)
        ELSE Tag(IF last.entering THEN "<p>" ELSE "</p>", <<>>) \in Range(last.wrote)

C9_Witness ==
    /\ ParagraphOfItem
    /\ ~last.grandparent.Tight
    /\ "Term" \notin last.parent.ListFlags
    /\ ~last.entering
    /\ Tag("<p>", <<>>) \in Range(last.entered)
    /\ Tag("</p>", <<>>) \in Range(last.wrote)

\* C10 as stated: while the raw-tag-suppression depth is above 0, every write
\* through out/outs has every tag removed, wherever it stands in the written
\* bytes, so no tag reaches the alt attribute; and the image's closing `" />`
\* is still written.
C10_AsStated ==
    /\ \A i \in 1..Len(last.sink) :
          last.sink[i].disabled => ~HasTag(last.sink[i].written)
    /\ (last.node.kind = "Image" /\ ~last.entering /\ last.status = GoToNext
        /\ disableTags = 0) =>
           (last.wrote # <<>> /\ last.wrote[Len(last.wrote)] = Frag("\" />"))

\* the number of open Image nodes the walk is inside
ImageDepth(stk) == Cardinality({i \in 1..Len(stk) : stk[i].node.kind = "Image"})

\* C11: during a walk by the default renderers the raw-tag-suppression depth is
\* never negative, is above 0 exactly while the walk is inside the subtree of
\* some Image (one level per enclosing image), and is 0 when the walk ends;
\* with skip-images an Image is entered only and the depth stays 0.
C11_SuppressionDepth ==
    /\ disableTags >= 0
    /\ (disableTags > 0) <=> (ImageDepth(stack) > 0)
    /\ disableTags = ImageDepth(stack)
    /\ Flag(opts, "SkipImages") => disableTags = 0
    /\ status = "done" => disableTags = 0

C11_Witness ==
    /\ ImageDepth(stack) = 2
    /\ disableTags = 2
    /\ last.node.kind = "Image" /\ last.entering
    /\ last.disabledBefore = 1
    /\ last.wrote = <<>>

\* the destination is a relative link, as C12 words it
RelativeDestination(d) ==
    /\ Len(d) > 0
    /\ \/ d[1] = "#"
       \/ d = <<"/">>
       \/ (Len(d) >= 2 /\ d[1] = "/" /\ d[2] # "/")
       \/ HasPrefix(d, <<".", "/">>)
       \/ HasPrefix(d, <<".", ".", "/">>)

\* some anchor of w carries a rel or a target attribute
AnchorHasRelOrTarget(w) ==
    \E i \in 1..Len(w) :
        /\ w[i].name = "<a"
        /\ \E j \in 1..Len(w[i].attrs) : w[i].attrs[j].k \in {"rel", "target"}

\* C12 as stated: the anchor emitted for a (non-footnote) Link node whose
\* destination is a relative link carries no rel and no target attribute, under
\* every combination of the nofollow, noreferrer and target-blank flags and
\* every absolute prefix.
C12_AsStated ==
    (/\ last.node.kind = "Link" /\ last.entering
     /\ last.node.NoteID = 0
     /\ RelativeDestination(last.node.Destination)) =>
        ~AnchorHasRelOrTarget(last.wrote)

HeadingOpenTags == {"<h1", "<h2", "<h3", "<h4", "<h5", "<h6"}

\* the values of attribute k of the pieces of b named in names, in order
RECURSIVE AttrValues(_, _, _)
AttrValues(b, names, k) ==
    IF b = <<>> THEN <<>>
    ELSE LET found == {j \in 1..Len(b[1].attrs) : b[1].attrs[j].k = k}
         IN  (IF b[1].name \in names /\ found # {}
              THEN <<b[1].attrs[CHOOSE j \in found : TRUE].v>> ELSE <<>>)
             \o AttrValues(Tail(b), names, k)

\* the heading open tags of b that are not title blocks, in order
RECURSIVE PlainHeadings(_)
PlainHeadings(b) ==
    IF b = <<>> THEN <<>>
    ELSE (IF b[1].name \in HeadingOpenTags
             /\ \A j \in 1..Len(b[1].attrs) : b[1].attrs[j].k # "class"
          THEN <<b[1]>> ELSE <<>>)
         \o PlainHeadings(Tail(b))

\* C13 as stated: with the TOC flag set, after RenderHeader and the body render
\* in one fresh session, the k-th TOC anchor target #toc_k is the id attribute
\* the body gives to the k-th heading that is not a title block, and to no
\* other heading, whatever the heading-id prefix and suffix.
C13_AsStated ==
    (bodyPhase = "done" /\ Flag(opts, "TOC")) =>
        LET targets == AttrValues(buf, {"<a"}, "href")
            plain == AttrValues(PlainHeadings(body), HeadingOpenTags, "id")
            all == AttrValues(body, HeadingOpenTags, "id")
        IN  /\ Len(targets) = Len(plain)
            /\ \A k \in 1..Len(targets) :
                  /\ targets[k] = <<"#">> \o TocID(k - 1)
                  /\ targets[k] = <<"#">> \o plain[k]
                  /\ Cardinality({i \in 1..Len(all) : <<"#">> \o all[i] = targets[k]}) = 1

\* the open list elements after the list events ev, innermost last, starting
\* from the open elements stk; <<"bad">> when a close tag has no matching open
RECURSIVE Nest(_, _)
Nest(ev, stk) ==
    IF ev = <<>> \/ stk = <<"bad">> THEN stk
    ELSE LET e == ev[1]
             top == IF stk = <<>> THEN "none" ELSE stk[Len(stk)]
             pop == SubSeq(stk, 1, Len(stk) - 1)
         IN  Nest(Tail(ev),
                  CASE e = "<ul>" -> Append(stk, "ul")
                    [] e = "<li>" -> Append(stk, "li")
                    [] e = "</li>" -> IF top = "li" THEN pop ELSE <<"bad">>
                    [] OTHER -> IF top = "ul" THEN pop ELSE <<"bad">>)

\* n open (<ul>, <li>) pairs
RECURSIVE OpenPairs(_)
OpenPairs(n) == IF n <= 0 THEN <<>> ELSE <<"ul", "li">> \o OpenPairs(n - 1)

\* n closing (</li>, </ul>) pairs
RECURSIVE ClosingPairs(_)
ClosingPairs(n) == IF n <= 0 THEN <<>> ELSE <<"</li>", "</ul>">> \o ClosingPairs(n - 1)

\* C14: the TOC builder keeps list markup balanced: no </li> or </ul> is
\* written without a matching earlier open; after a heading is entered the
\* tracked level is that heading's level and the number of open (<ul>, <li>)
\* pairs; and after the traversal the trailing closing (</li>, </ul>) pairs
\* number the last heading's level, leaving depth 0.
C14_TocBalanced ==
    LET ev == ListEvents(buf)
        open == Nest(ev, <<>>)
        levels == TocLevels(doc)
        lastLevel == IF levels = <<>> THEN 0 ELSE levels[Len(levels)]
    IN  /\ open # <<"bad">>
        /\ (tocPhase = "child" /\ ~doc[tocPos].IsTitleblock) =>
               /\ tocLevel = doc[tocPos].Level
               /\ open = OpenPairs(doc[tocPos].Level)
        /\ tocPhase \in {"enter", "child", "exit"} => open = OpenPairs(tocLevel)
        /\ tocPhase = "done" =>
               /\ open = <<>>
               /\ tocLevel = 0
               /\ Len(ev) >= 2 * lastLevel
               /\ SubSeq(ev, Len(ev) - 2 * lastLevel + 1, Len(ev)) = ClosingPairs(lastLevel)
               /\ Len(ev) > 2 * lastLevel => ev[Len(ev) - 2 * lastLevel] = "<li>"

C14_Witness ==
    /\ tocPhase = "done"
    /\ TocLevels(doc) = <<1, 3, 2, 2>>
    /\ Nest(ListEvents(buf), <<>>) = <<>>
    /\ Len(ListEvents(buf)) = 16

\* the close tag that is the counterpart of an item's open tag
ItemCounterpart(open) ==
    CASE open \in {"<li>", "<li"} -> "</li>"
      [] open = "<dd>" -> "</dd>"
      [] open = "<dt>" -> "</dt>"
      [] OTHER -> "none"

\* the names of the pieces of w that are in names
TagsAmong(w, names) == {w[i].name : i \in {j \in 1..Len(w) : w[j].name \in names}}

\* C15 as stated: for every ListItem node, whatever its definition flag, term
\* flag and reference-link, the close tag written on exiting is the counterpart
\* of the open tag written on entering.
C15_AsStated ==
    (last.node.kind = "ListItem" /\ ~last.entering) =>
        LET opened == TagsAmong(last.entered, {"<li>", "<li", "<dd>", "<dt>"})
            closed == TagsAmong(last.wrote, {"</li>", "</dd>", "</dt>"})
        IN  /\ Cardinality(opened) = 1
            /\ closed = {ItemCounterpart(t) : t \in opened}

\* C16 as stated: rendering a Link or Image node whose destination is empty
\* completes without aborting, under every flag and absolute-prefix
\* configuration, and RenderNode aborts only on a node of an unknown kind.
C16_AsStated ==
    /\ (last.node.kind \in {"Link", "Image"} /\ last.node.Destination = <<>>) =>
           last.status # "panic"
    /\ last.status = "panic" => last.node.kind \notin RenderableKinds

====
